---- MODULE Spec2Model ----
(***************************************************************************)
(* go-student-api: the students table behind the storage adapters          *)
(* (internal/storage/sqlite, internal/storage/postgres), the storage       *)
(* operations, and the four HTTP handlers of internal/http/handlers/student *)
(* that call them.  Every SQL statement is one atomic step of the engine;   *)
(* UpdateStudentById issues two statements (UPDATE, then a re-read), so     *)
(* other requests may run between them.  Spec is the serving process,       *)
(* MainSpec the process from the entry of main(), and PairSpec the two      *)
(* adapters given the same storage calls.                                   *)
(***************************************************************************)
EXTENDS Integers, Sequences, FiniteSets, TLC

VARIABLES
    driver,     \* cfg.DBType the factory selected: "sqlite" or "postgres"
    students,   \* the students table: its rows (id, name, email, age) in storage order
    seq,        \* last value of the id generator (SERIAL / AUTOINCREMENT)
    pending,    \* ids whose UPDATE has run and whose re-read is still due
    issued,     \* history: the ids CreateStudent has returned so far
    last,       \* the request handled last: storage return and HTTP response
    proc,       \* the process: where main() is, and what NewStorage gave it
    twin        \* a SQLite table driven by the same storage calls as students

vars == <<driver, students, seq, pending, issued, last, proc, twin>>

----------------------------------------------------------------------------
(* Bounds and input domains *)

\* cap on the id generator (number of INSERT attempts that draw an id)
MaxSeq == 2

\* cap on the ids with an UpdateStudentById call between its two statements
MaxPending == 1

\* cap on the number of storage calls given to the two adapters side by side
MaxCalls == 3

\* types.Student validate tags: gte=1, lte=100
MinAge == 1
MaxAge == 100

\* net/http status codes the handlers pass to WriteJson / http.Error
StatusOK == 200
StatusCreated == 201
StatusBadRequest == 400
StatusMethodNotAllowed == 405
StatusInternalServerError == 500

Drivers == {"sqlite", "postgres"}
Methods == {"GET", "POST", "PUT", "DELETE"}
Paths == {"/api/student", "/api/student/{id}", "/api/students"}

\* the zero value of types.Student
ZeroStudent == [id |-> 0, name |-> "", email |-> "", age |-> 0]

Row(name, email, age) == [name |-> name, email |-> email, age |-> age]

\* types.Student
Student(id, name, email, age) == [id |-> id, name |-> name, email |-> email, age |-> age]

----------------------------------------------------------------------------
(* Request bodies and encoding/json *)

\* A body is a sequence of chunks of text: a JSON object with the Student
\* fields, another JSON value (number, string, array), or text that is no
\* JSON value at all.
\* The objects clients send: two that pass validation, and one failing each
\* validation tag.
Objects == {Row("Ada", "a@x.com", MinAge),
            Row("Bob", "b@x.com", MaxAge),
            Row("",    "b@x.com", MinAge),
            Row("Ada", "bad",     MinAge),
            Row("Ada", "b@x.com", MinAge - 1),
            Row("Ada", "b@x.com", MaxAge + 1)}
ObjectChunks == {[kind |-> "object", name |-> o.name, email |-> o.email, age |-> o.age] :
                    o \in Objects}
OtherChunks == {[kind |-> k, name |-> "", email |-> "", age |-> 0] :
                    k \in {"scalar", "junk"}}
Chunks == ObjectChunks \cup OtherChunks
JunkChunk == [kind |-> "junk", name |-> "", email |-> "", age |-> 0]

ScalarChunk == [kind |-> "scalar", name |-> "", email |-> "", age |-> 0]
AdaChunk == [kind |-> "object", name |-> "Ada", email |-> "a@x.com", age |-> MinAge]

\* the empty body, one chunk, or a chunk followed by stray text
Bodies == {<<>>} \cup {<<c>> : c \in Chunks}
             \cup {<<c, JunkChunk>> : c \in {AdaChunk, ScalarChunk}}

\* the whole body is one well-formed JSON document
WellFormedJson(body) == Len(body) = 1 /\ body[1].kind # "junk"

\* json.NewDecoder(r.Body).Decode(&student): reads the NEXT JSON value of
\* the stream into the struct and leaves whatever follows it unread.
Decode(body) ==
    IF Len(body) = 0 THEN [err |-> "EOF", student |-> ZeroStudent]
    ELSE LET c == body[1] IN
         CASE c.kind = "junk"   -> [err |-> "syntax", student |-> ZeroStudent]
           [] c.kind = "scalar" -> [err |-> "type", student |-> ZeroStudent]
           [] OTHER             -> [err |-> "none",
                                    student |-> [id |-> 0, name |-> c.name,
                                                 email |-> c.email, age |-> c.age]]

\* validate:"email"
IsEmail(e) == e \in {"a@x.com", "b@x.com"}

\* (variant: the lte=100 tag is missing)
ValidationErrors_NoUpperBound(s) ==
    (IF s.name = "" THEN {"Name"} ELSE {})
    \cup (IF s.email = "" \/ ~IsEmail(s.email) THEN {"Email"} ELSE {})
    \cup (IF s.age = 0 \/ s.age < MinAge THEN {"Age"} ELSE {})

\* validator.New().Struct(student) with the tags of types.Student:
\* Name required; Email required,email; Age required,gte=1,lte=100
\* ("required" rejects the zero value): the fields that fail.
ValidationErrors(s) ==
    (IF s.name = "" THEN {"Name"} ELSE {})
    \cup (IF s.email = "" \/ ~IsEmail(s.email) THEN {"Email"} ELSE {})
    \cup (IF s.age = 0 \/ s.age < MinAge \/ s.age > MaxAge THEN {"Age"} ELSE {})

Validate(s) == ValidationErrors(s) = {}

\* strconv.ParseInt(id, 10, 64) on the {id} path segment, a string of
\* characters: digits give their base-10 value, anything else an error.
DigitVal == [c \in {"0", "1", "2", "3", "4", "5", "6", "7", "8", "9"} |->
                CASE c = "0" -> 0 [] c = "1" -> 1 [] c = "2" -> 2 [] c = "3" -> 3
                  [] c = "4" -> 4 [] c = "5" -> 5 [] c = "6" -> 6 [] c = "7" -> 7
                  [] c = "8" -> 8 [] OTHER -> 9]

RECURSIVE DigitsValue(_)
DigitsValue(s) ==
    IF Len(s) = 0 THEN 0
    ELSE 10 * DigitsValue(SubSeq(s, 1, Len(s) - 1)) + DigitVal[s[Len(s)]]

ParseInt(s) ==
    LET signed == Len(s) > 0 /\ s[1] \in {"+", "-"}
        digits == IF signed THEN Tail(s) ELSE s
    IN
    IF Len(digits) = 0 \/ \E i \in 1..Len(digits) : digits[i] \notin DOMAIN DigitVal
    THEN [err |-> TRUE, val |-> 0]
    ELSE [err |-> FALSE,
          val |-> IF signed /\ s[1] = "-" THEN 0 - DigitsValue(digits)
                  ELSE DigitsValue(digits)]

DigitChar(i) == CHOOSE c \in DOMAIN DigitVal : DigitVal[c] = i

\* {id} path segments (the mux matches no empty segment)
PathIds == {<<"x">>, <<"-", "1">>} \cup {<<DigitChar(i)>> : i \in 1..MaxSeq}

----------------------------------------------------------------------------
(* The SQL engine: the students table declared by the adapters' New()     *)

\* the ids of the rows stored (id is the PRIMARY KEY)
Ids(db) == {db[k].id : k \in 1..Len(db)}

RowOf(db, id) == db[CHOOSE k \in 1..Len(db) : db[k].id = id]

EmailTaken(db, email) == \E k \in 1..Len(db) : db[k].email = email

Without(db, id) == SelectSeq(db, LAMBDA row : row.id # id)

\* (variant: the email column is not declared UNIQUE)
ExecInsert_NoUnique(drv, db, sq, name, email, age) ==
    [db |-> Append(db, Student(sq + 1, name, email, age)),
     seq |-> sq + 1, id |-> sq + 1, err |-> "none"]

\* (variant: a stored row does not advance the id generator)
ExecInsert_SeqNotAdvanced(drv, db, sq, name, email, age) ==
    IF EmailTaken(db, email)
    THEN [db |-> db, seq |-> IF drv = "postgres" THEN sq + 1 ELSE sq,
          id |-> 0, err |-> "ConstraintViolation"]
    ELSE [db |-> Append(db, Student(sq + 1, name, email, age)),
          seq |-> sq, id |-> sq + 1, err |-> "none"]

\* INSERT INTO students (name, email, age) VALUES (...) against
\*   id SERIAL PRIMARY KEY / INTEGER PRIMARY KEY AUTOINCREMENT,
\*   email TEXT UNIQUE NOT NULL.
\* A PostgreSQL sequence is advanced by a rejected INSERT as well; SQLite
\* records the new id only when the row is stored.
ExecInsert(drv, db, sq, name, email, age) ==
    IF EmailTaken(db, email)
    THEN [db |-> db, seq |-> IF drv = "postgres" THEN sq + 1 ELSE sq,
          id |-> 0, err |-> "ConstraintViolation"]
    ELSE [db |-> Append(db, Student(sq + 1, name, email, age)),
          seq |-> sq + 1, id |-> sq + 1, err |-> "none"]

\* (variant: the UPDATE is not checked against the UNIQUE email)
ExecUpdate_NoUnique(db, id, name, email, age) ==
    IF id \notin Ids(db)
    THEN [db |-> db, rows |-> 0, err |-> "none"]
    ELSE [db |-> Append(Without(db, id), Student(id, name, email, age)),
          rows |-> 1, err |-> "none"]

\* (variant: SET leaves the age column out)
ExecUpdate_SkipAge(db, id, name, email, age) ==
    IF id \notin Ids(db)
    THEN [db |-> db, rows |-> 0, err |-> "none"]
    ELSE IF \E k \in 1..Len(db) : db[k].id # id /\ db[k].email = email
    THEN [db |-> db, rows |-> 0, err |-> "ConstraintViolation"]
    ELSE [db |-> Append(Without(db, id), Student(id, name, email, RowOf(db, id).age)),
          rows |-> 1, err |-> "none"]

\* (variant: the statement sets the name column only)
ExecUpdate_NameOnly(db, id, name, email, age) ==
    IF id \notin Ids(db)
    THEN [db |-> db, rows |-> 0, err |-> "none"]
    ELSE [db |-> Append(Without(db, id),
                        Student(id, name, RowOf(db, id).email, RowOf(db, id).age)),
          rows |-> 1, err |-> "none"]

\* (variant: the matching row is deleted and not written back)
ExecUpdate_DeletesRow(db, id, name, email, age) ==
    IF id \notin Ids(db)
    THEN [db |-> db, rows |-> 0, err |-> "none"]
    ELSE IF \E k \in 1..Len(db) : db[k].id # id /\ db[k].email = email
    THEN [db |-> db, rows |-> 0, err |-> "ConstraintViolation"]
    ELSE [db |-> Without(db, id), rows |-> 1, err |-> "none"]

\* UPDATE students SET name = $1, email = $2, age = $3 WHERE id = $4
\* (PostgreSQL writes the new version of the row after the rows stored).
ExecUpdate(db, id, name, email, age) ==
    IF id \notin Ids(db)
    THEN [db |-> db, rows |-> 0, err |-> "none"]
    ELSE IF \E k \in 1..Len(db) : db[k].id # id /\ db[k].email = email
    THEN [db |-> db, rows |-> 0, err |-> "ConstraintViolation"]
    ELSE [db |-> Append(Without(db, id), Student(id, name, email, age)),
          rows |-> 1, err |-> "none"]

RECURSIVE Ascending(_)
Ascending(S) ==
    IF S = {} THEN <<>>
    ELSE LET m == CHOOSE x \in S : \A y \in S : x <= y
         IN <<m>> \o Ascending(S \ {m})

\* (variant: the SELECT has no ORDER BY and returns the rows as stored)
QueryAll_NoOrderBy(db) == db

\* SELECT id, name, email, age FROM students ORDER BY id ASC
QueryAll(db) == LET ids == Ascending(Ids(db))
                IN [k \in 1..Len(ids) |-> RowOf(db, ids[k])]

----------------------------------------------------------------------------
(* The storage adapters.  up = FALSE: the round trip to the engine fails   *)
(* (connection lost, engine unavailable).                                   *)

\* Sqlite.CreateStudent: Prepare, Exec, LastInsertId
SqliteCreateStudent(db, sq, name, email, age, up) ==
    IF ~up THEN [db |-> db, seq |-> sq, id |-> 0, err |-> "ConnectionError"]
    ELSE ExecInsert("sqlite", db, sq, name, email, age)

\* (variant: name and email are bound to the placeholders in the wrong order)
PostgresCreateStudent_SwappedArgs(db, sq, name, email, age, up) ==
    IF ~up THEN [db |-> db, seq |-> sq, id |-> 0, err |-> "ConnectionError"]
    ELSE ExecInsert("postgres", db, sq, email, name, age)

\* Postgres.CreateStudent: INSERT ... RETURNING id, Scan(&id)
PostgresCreateStudent(db, sq, name, email, age, up) ==
    IF ~up THEN [db |-> db, seq |-> sq, id |-> 0, err |-> "ConnectionError"]
    ELSE ExecInsert("postgres", db, sq, name, email, age)

CreateStudent(drv, db, sq, name, email, age, up) ==
    IF drv = "sqlite" THEN SqliteCreateStudent(db, sq, name, email, age, up)
    ELSE PostgresCreateStudent(db, sq, name, email, age, up)

\* (variant: sql.ErrNoRows is not tested and the zero Student is returned)
GetStudentById_IgnoreNoRows(db, id, up) ==
    IF ~up THEN [student |-> ZeroStudent, err |-> "ConnectionError"]
    ELSE IF id \notin Ids(db) THEN [student |-> ZeroStudent, err |-> "none"]
    ELSE [student |-> RowOf(db, id), err |-> "none"]

\* GetStudentById (both adapters): SELECT ... WHERE id = ?, Scan;
\* sql.ErrNoRows becomes "no student found with id", other errors are wrapped.
GetStudentById(db, id, up) ==
    IF ~up THEN [student |-> ZeroStudent, err |-> "ConnectionError"]
    ELSE IF id \notin Ids(db) THEN [student |-> ZeroStudent, err |-> "NotFound"]
    ELSE [student |-> RowOf(db, id), err |-> "none"]

\* GetStudents (both adapters): rows in ascending id order; a nil slice and
\* an error when the query or the iteration fails.  The slice is declared
\* with "var students []types.Student" and grows by append, one row at a
\* time: it is still nil when the query returned no row.
GetStudents(db, up) ==
    IF ~up THEN [list |-> <<>>, isnil |-> TRUE, err |-> "ConnectionError"]
    ELSE [list |-> QueryAll(db), isnil |-> (Len(QueryAll(db)) = 0), err |-> "none"]

\* (variant: rowsAffected is not tested)
UpdateExec_NoRowsCheck(db, id, name, email, age, up) ==
    IF ~up THEN [db |-> db, err |-> "ConnectionError"]
    ELSE LET r == ExecUpdate(db, id, name, email, age) IN
         IF r.err # "none" THEN [db |-> db, err |-> r.err]
         ELSE [db |-> r.db, err |-> "none"]

\* Postgres.UpdateStudentById up to the rows-affected test (lines 317-327):
\* the UPDATE statement; zero rows affected is "no student found with id".
UpdateExec(db, id, name, email, age, up) ==
    IF ~up THEN [db |-> db, err |-> "ConnectionError"]
    ELSE LET r == ExecUpdate(db, id, name, email, age) IN
         IF r.err # "none" THEN [db |-> db, err |-> r.err]
         ELSE IF r.rows = 0 THEN [db |-> db, err |-> "NotFound"]
         ELSE [db |-> r.db, err |-> "none"]

\* Postgres.UpdateStudentById from the re-read on (lines 329-333):
\* student, _ := p.GetStudentById(id); return student, nil
UpdateReread(db, id, up) ==
    [student |-> GetStudentById(db, id, up).student, err |-> "none"]

----------------------------------------------------------------------------
(* The HTTP layer *)

\* the patterns registered on the ServeMux in main()
Route(method, path) ==
    CASE method = "POST" /\ path = "/api/student"      -> "New"
      [] method = "GET"  /\ path = "/api/student/{id}" -> "GetById"
      [] method = "GET"  /\ path = "/api/students"     -> "GetList"
      [] method = "PUT"  /\ path = "/api/student/{id}" -> "UpdateById"
      [] OTHER                                         -> "none"

\* what is recorded of a handled request: the handler, the storage
\* operation it invoked (or "none") with the error it returned, and the
\* response: status (0: none written yet), envelope kind, the "id" of a
\* success envelope, the fields a validation envelope names, the
\* number of students in a list and the JSON text a list is written as
Outcome(op, called, err, id, status, kind) ==
    [op |-> op, called |-> called, err |-> err, id |-> id, status |-> status, kind |-> kind,
     fields |-> {}, count |-> 0, body |-> "none"]

\* response.WriteJson(w, status, data) for a []types.Student: the status,
\* then the value JSON-encoded: an array of the elements of the slice, and
\* null for a nil slice.
WriteJson(status, list, isnil) ==
    [status |-> status, count |-> Len(list),
     body |-> IF isnil THEN "null" ELSE "array"]

NoCall(op, status, kind) ==
    Outcome(op, "none", "none", 0, status, kind)

\* main() at a point of its text: the storage handle it holds ("nil":
\* none), the error that ended the start-up ("none": none), cfg.DBType,
\* whether NewStorage returned to main, the adapter constructors invoked,
\* and whether the routes are registered
Process(pc, storage, err, dbType, returned, tried, routes) ==
    [pc |-> pc, storage |-> storage, err |-> err, dbType |-> dbType,
     returned |-> returned, tried |-> tried, routes |-> routes]

\* main() once the listener runs on the handle of adapter drv
Serving(drv) == Process("serving", drv, "none", drv, TRUE, {drv}, TRUE)

\* the second table before any call
NoTwin == [students |-> <<>>, seq |-> 0, calls |-> 0,
           lite |-> [op |-> "none", err |-> "none", id |-> 0, list |-> <<>>],
           pg   |-> [op |-> "none", err |-> "none", id |-> 0, list |-> <<>>]]

Init ==
    /\ driver \in Drivers
    /\ students = <<>>
    /\ seq = 0
    /\ pending = {}
    /\ issued = {}
    /\ last = NoCall("start", 0, "none")
    /\ proc = Serving(driver)
    /\ twin = NoTwin

\* a request no registered pattern matches: the mux answers itself
MuxReject(method, path) ==
    /\ Route(method, path) = "none"
    /\ last' = NoCall("mux", StatusMethodNotAllowed, "text")
    /\ UNCHANGED <<driver, students, seq, pending, issued, proc, twin>>

\* The closure student.New returns, as a function of the table and the
\* request: the table and id generator it leaves and what it answers.
NewHandler(drv, db, sq, method, body, up) ==
    LET d == Decode(body)
        s == d.student
        r == CreateStudent(drv, db, sq, s.name, s.email, s.age, up)
    IN
    IF method # "POST"
    THEN [db |-> db, seq |-> sq, out |-> NoCall("New", StatusMethodNotAllowed, "text")]
    ELSE IF d.err # "none"
    THEN [db |-> db, seq |-> sq, out |-> NoCall("New", StatusBadRequest, "GeneralError")]
    ELSE IF ~Validate(s)
    THEN [db |-> db, seq |-> sq,
          out |-> [NoCall("New", StatusBadRequest, "ValidationError")
                      EXCEPT !.fields = ValidationErrors(s)]]
    ELSE IF r.err # "none"
    THEN [db |-> r.db, seq |-> r.seq,
          out |-> Outcome("New", "CreateStudent", r.err, 0, StatusBadRequest, "GeneralError")]
    ELSE [db |-> r.db, seq |-> r.seq,
          out |-> Outcome("New", "CreateStudent", "none", r.id, StatusCreated, "success")]

\* student.New: POST /api/student
New(method, body, up) ==
    LET h == NewHandler(driver, students, seq, method, body, up) IN
    /\ h.out.called = "CreateStudent" => seq < MaxSeq
    /\ students' = h.db
    /\ seq' = h.seq
    /\ issued' = IF h.out.status = StatusCreated THEN issued \cup {h.out.id} ELSE issued
    /\ last' = h.out
    /\ UNCHANGED <<driver, pending, proc, twin>>

GetByIdHandler(db, idstr, up) ==
    LET p == ParseInt(idstr)
        r == GetStudentById(db, p.val, up)
    IN
    IF p.err
    THEN [out |-> NoCall("GetById", StatusBadRequest, "GeneralError"), student |-> ZeroStudent]
    ELSE IF r.err # "none"
    THEN [out |-> Outcome("GetById", "GetStudentById", r.err, 0,
                          StatusInternalServerError, "GeneralError"),
          student |-> ZeroStudent]
    ELSE [out |-> Outcome("GetById", "GetStudentById", "none", r.student.id,
                          StatusOK, "student"),
          student |-> r.student]

\* student.GetById: GET /api/student/{id}
GetById(idstr, up) ==
    /\ last' = GetByIdHandler(students, idstr, up).out
    /\ UNCHANGED <<driver, students, seq, pending, issued, proc, twin>>

GetListHandler(db, up) ==
    LET r == GetStudents(db, up) IN
    IF r.err # "none"
    THEN [out |-> Outcome("GetList", "GetStudents", r.err, 0,
                          StatusInternalServerError, "GeneralError"),
          list |-> <<>>]
    ELSE LET w == WriteJson(StatusOK, r.list, r.isnil) IN
         [out |-> [Outcome("GetList", "GetStudents", "none", 0, w.status, "list")
                      EXCEPT !.count = w.count, !.body = w.body],
          list |-> r.list]

\* student.GetList: GET /api/students
GetList(up) ==
    /\ last' = GetListHandler(students, up).out
    /\ UNCHANGED <<driver, students, seq, pending, issued, proc, twin>>

\* student.UpdateById through the UPDATE statement of
\* storage.UpdateStudentById: the body is decoded and the path id parsed;
\* the handler makes no validator call.  reread = the id whose re-read is
\* due (0: the handler has answered).
UpdateByIdHandler(db, method, body, idstr, up) ==
    LET d == Decode(body)
        s == d.student
        p == ParseInt(idstr)
        r == UpdateExec(db, p.val, s.name, s.email, s.age, up)
    IN
    IF method # "PUT"
    THEN [db |-> db, reread |-> 0,
          out |-> NoCall("UpdateById", StatusMethodNotAllowed, "text")]
    ELSE IF d.err # "none"
    THEN [db |-> db, reread |-> 0,
          out |-> NoCall("UpdateById", StatusBadRequest, "GeneralError")]
    ELSE IF p.err
    THEN [db |-> db, reread |-> 0,
          out |-> NoCall("UpdateById", StatusBadRequest, "GeneralError")]
    ELSE IF r.err # "none"
    THEN [db |-> r.db, reread |-> 0,
          out |-> Outcome("UpdateById", "UpdateStudentById", r.err, 0,
                          StatusInternalServerError, "GeneralError")]
    ELSE [db |-> r.db, reread |-> p.val,
          out |-> Outcome("UpdateById", "UpdateStudentById", "none", p.val, 0, "none")]

\* student.UpdateById: PUT /api/student/{id}.  Only the PostgreSQL adapter
\* of the source defines UpdateStudentById.
UpdateById(method, body, idstr, up) ==
    LET h == UpdateByIdHandler(students, method, body, idstr, up) IN
    /\ driver = "postgres"
    /\ h.reread # 0 => Cardinality(pending \cup {h.reread}) <= MaxPending
    /\ students' = h.db
    /\ pending' = IF h.reread # 0 THEN pending \cup {h.reread} ELSE pending
    /\ last' = h.out
    /\ UNCHANGED <<driver, seq, issued, proc, twin>>

\* student.UpdateById, continued: the re-read inside UpdateStudentById and
\* the success response, whose "id" is the ID of the Student returned.
UpdateByIdReturn(id, up) ==
    LET r == UpdateReread(students, id, up) IN
    /\ id \in pending
    /\ pending' = pending \ {id}
    /\ last' = Outcome("UpdateById", "UpdateStudentById", r.err, r.student.id,
                       StatusOK, "success")
    /\ UNCHANGED <<driver, students, seq, issued, proc, twin>>

Next ==
    \/ \E m \in Methods, p \in Paths : MuxReject(m, p)
    \/ \E b \in Bodies, up \in BOOLEAN : New("POST", b, up)
    \/ \E i \in PathIds, up \in BOOLEAN : GetById(i, up)
    \/ \E up \in BOOLEAN : GetList(up)
    \/ \E b \in Bodies, i \in PathIds, up \in BOOLEAN : UpdateById("PUT", b, i, up)
    \/ \E i \in 1..MaxSeq, up \in BOOLEAN : UpdateByIdReturn(i, up)

Spec == Init /\ [][Next]_vars

----------------------------------------------------------------------------
(* Start-up: config.MustLoad, factory.NewStorage and the adapter           *)
(* constructors, as main() runs them before it starts the listener.        *)

\* values of db_driver in the configuration file ("": not set)
DriverNames == Drivers \cup {"mysql", ""}

\* the configuration NewStorage reads: DBType, and whether StoragePath is
\* a non-empty string
Configs == [DBType : DriverNames, StoragePath : BOOLEAN]

\* what the environment answers the constructors: the CREATE DATABASE of
\* ensureDatabase, sql.Open, db.Ping and CREATE TABLE IF NOT EXISTS
Envs == [admin : {"created", "exists", "failed", "noopen"},
         open : BOOLEAN, ping : BOOLEAN, table : BOOLEAN]

\* what a call of NewStorage comes to: the handle and the error returned,
\* the value and the supported names the error text carries, the
\* constructors invoked, and fatal = the call ended the process (log.Fatal)
\* instead of returning
Built(storage, err, tried) ==
    [storage |-> storage, err |-> err, value |-> "", supported |-> {},
     tried |-> tried, fatal |-> FALSE]

\* sqlite.New
SqliteNew(cfg, env) ==
    IF ~cfg.StoragePath THEN Built("nil", "NoStoragePath", {"sqlite"})
    ELSE IF ~env.open THEN Built("nil", "OpenFailed", {"sqlite"})
    ELSE IF ~env.ping THEN Built("nil", "PingFailed", {"sqlite"})
    ELSE IF ~env.table THEN Built("nil", "CreateTableFailed", {"sqlite"})
    ELSE Built("sqlite", "none", {"sqlite"})

\* postgres.ensureDatabase: an "already exists" failure is no error
ensureDatabase(cfg, env) ==
    IF env.admin = "noopen" THEN "OpenFailed"
    ELSE IF env.admin = "failed" THEN "CreateDatabaseFailed"
    ELSE "none"

\* postgres.New
PostgresNew(cfg, env) ==
    IF ensureDatabase(cfg, env) # "none"
    THEN Built("nil", ensureDatabase(cfg, env), {"postgres"})
    ELSE IF ~env.open THEN Built("nil", "OpenFailed", {"postgres"})
    ELSE IF ~env.ping THEN Built("nil", "PingFailed", {"postgres"})
    ELSE IF ~env.table THEN Built("nil", "CreateTableFailed", {"postgres"})
    ELSE Built("postgres", "none", {"postgres"})

\* the constructors registered in the factories map
factories == [sqlite |-> "sqlite.New", postgres |-> "postgres.New"]

\* (variant: a name that is not registered falls back to the SQLite adapter)
NewStorage_FallbackSqlite(cfg, env) ==
    IF cfg.DBType = ""
    THEN [Built("nil", "none", {}) EXCEPT !.fatal = TRUE]
    ELSE IF cfg.DBType = "postgres" THEN PostgresNew(cfg, env)
    ELSE SqliteNew(cfg, env)

\* factory.NewStorage: log.Fatal on an empty DBType; the error
\* "unsupported db type: <DBType> (supported: sqlite, postgres)" for a name
\* that is not registered; else the registered constructor
NewStorage(cfg, env) ==
    IF cfg.DBType = ""
    THEN [Built("nil", "none", {}) EXCEPT !.fatal = TRUE]
    ELSE IF cfg.DBType \notin DOMAIN factories
    THEN [Built("nil", "UnsupportedDriver", {})
             EXCEPT !.value = cfg.DBType, !.supported = {"sqlite", "postgres"}]
    ELSE IF cfg.DBType = "sqlite" THEN SqliteNew(cfg, env)
    ELSE PostgresNew(cfg, env)

\* (variant: main does not test the error NewStorage returns)
MainBoot_NoErrCheck(loaded, cfg, env) ==
    LET r == NewStorage(cfg, env) IN
    IF ~loaded
    THEN Process("exited", "nil", "ConfigError", "", FALSE, {}, FALSE)
    ELSE IF r.fatal
    THEN Process("exited", "nil", "NoDriver", cfg.DBType, FALSE, r.tried, FALSE)
    ELSE Process("routes", r.storage, r.err, cfg.DBType, TRUE, r.tried, FALSE)

\* main() through the test of the error of NewStorage: MustLoad ends the
\* process when the configuration cannot be loaded; log.Fatalf ends it
\* when NewStorage returns an error
MainBoot(loaded, cfg, env) ==
    LET r == NewStorage(cfg, env) IN
    IF ~loaded
    THEN Process("exited", "nil", "ConfigError", "", FALSE, {}, FALSE)
    ELSE IF r.fatal
    THEN Process("exited", "nil", "NoDriver", cfg.DBType, FALSE, r.tried, FALSE)
    ELSE IF r.err # "none"
    THEN Process("exited", "nil", r.err, cfg.DBType, TRUE, r.tried, FALSE)
    ELSE Process("routes", r.storage, "none", cfg.DBType, TRUE, r.tried, FALSE)

MainInit ==
    /\ driver = "none"
    /\ students = <<>>
    /\ seq = 0
    /\ pending = {}
    /\ issued = {}
    /\ last = NoCall("start", 0, "none")
    /\ proc = Process("start", "nil", "none", "", FALSE, {}, FALSE)
    /\ twin = NoTwin

\* main(): cfg := config.MustLoad(); storage, err := factory.NewStorage(*cfg)
MainStart(loaded, cfg, env) ==
    /\ proc.pc = "start"
    /\ proc' = MainBoot(loaded, cfg, env)
    /\ driver' = IF proc'.storage = "nil" THEN driver ELSE proc'.storage
    /\ UNCHANGED <<students, seq, pending, issued, last, twin>>

\* main(): the four routes are registered with the handle, and the
\* listener is started; log.Fatalf when ListenAndServe fails
MainServe(ok) ==
    /\ proc.pc = "routes"
    /\ proc' = IF ok THEN [proc EXCEPT !.pc = "serving", !.routes = TRUE]
                ELSE [proc EXCEPT !.pc = "exited", !.routes = TRUE, !.err = "ListenFailed"]
    /\ UNCHANGED <<driver, students, seq, pending, issued, last, twin>>

\* requests reach the handlers once the listener runs
MainHandle ==
    /\ proc.pc = "serving"
    /\ Next

MainNext ==
    \/ \E loaded \in BOOLEAN, cfg \in Configs, env \in Envs : MainStart(loaded, cfg, env)
    \/ \E ok \in BOOLEAN : MainServe(ok)
    \/ MainHandle

MainSpec == MainInit /\ [][MainNext]_vars

----------------------------------------------------------------------------
(* The two adapters side by side: every storage call is given to a SQLite  *)
(* adapter (table twin.students, generator twin.seq) and to a PostgreSQL   *)
(* adapter (table students, generator seq), both engines executing every   *)
(* statement, and the two answers are kept in twin.lite and twin.pg.       *)

\* what a storage call returned: the error kind, the id (CreateStudent) and
\* the students (GetStudentById, GetStudents, UpdateStudentById)
Answer(op, err, id, list) == [op |-> op, err |-> err, id |-> id, list |-> list]

\* The method set of *Sqlite is CreateStudent, GetStudentById and
\* GetStudents: the adapter defines no UpdateStudentById, so the call
\* cannot be made on it and the table stays as it is.
SqliteUpdateStudentById(db, id, name, email, age) ==
    [db |-> db, student |-> ZeroStudent, err |-> "Unsupported"]

\* Postgres.UpdateStudentById, its two statements run back to back
PostgresUpdateStudentById(db, id, name, email, age) ==
    LET u == UpdateExec(db, id, name, email, age, TRUE) IN
    IF u.err # "none"
    THEN [db |-> u.db, student |-> ZeroStudent, err |-> u.err]
    ELSE [db |-> u.db, student |-> UpdateReread(u.db, id, TRUE).student, err |-> "none"]

PairInit ==
    /\ driver = "postgres"
    /\ students = <<>>
    /\ seq = 0
    /\ pending = {}
    /\ issued = {}
    /\ last = NoCall("start", 0, "none")
    /\ proc = Serving("postgres")
    /\ twin = NoTwin

PairCreateStudent(o) ==
    LET a == SqliteCreateStudent(twin.students, twin.seq, o.name, o.email, o.age, TRUE)
        b == PostgresCreateStudent(students, seq, o.name, o.email, o.age, TRUE)
    IN
    /\ twin.calls < MaxCalls
    /\ twin' = [students |-> a.db, seq |-> a.seq, calls |-> twin.calls + 1,
                lite |-> Answer("CreateStudent", a.err, a.id, <<>>),
                pg   |-> Answer("CreateStudent", b.err, b.id, <<>>)]
    /\ students' = b.db
    /\ seq' = b.seq
    /\ UNCHANGED <<driver, pending, issued, last, proc>>

PairGetStudentById(id) ==
    LET a == GetStudentById(twin.students, id, TRUE)
        b == GetStudentById(students, id, TRUE)
    IN
    /\ twin.calls < MaxCalls
    /\ twin' = [twin EXCEPT !.calls = @ + 1,
                            !.lite = Answer("GetStudentById", a.err, 0, <<a.student>>),
                            !.pg   = Answer("GetStudentById", b.err, 0, <<b.student>>)]
    /\ UNCHANGED <<driver, students, seq, pending, issued, last, proc>>

PairGetStudents ==
    LET a == GetStudents(twin.students, TRUE)
        b == GetStudents(students, TRUE)
    IN
    /\ twin.calls < MaxCalls
    /\ twin' = [twin EXCEPT !.calls = @ + 1,
                            !.lite = Answer("GetStudents", a.err, 0, a.list),
                            !.pg   = Answer("GetStudents", b.err, 0, b.list)]
    /\ UNCHANGED <<driver, students, seq, pending, issued, last, proc>>

PairUpdateStudentById(id, o) ==
    LET a == SqliteUpdateStudentById(twin.students, id, o.name, o.email, o.age)
        b == PostgresUpdateStudentById(students, id, o.name, o.email, o.age)
    IN
    /\ twin.calls < MaxCalls
    /\ twin' = [twin EXCEPT !.students = a.db,
                            !.calls = @ + 1,
                            !.lite = Answer("UpdateStudentById", a.err, 0, <<a.student>>),
                            !.pg   = Answer("UpdateStudentById", b.err, 0, <<b.student>>)]
    /\ students' = b.db
    /\ UNCHANGED <<driver, seq, pending, issued, last, proc>>

PairNext ==
    \/ \E o \in Objects : PairCreateStudent(o)
    \/ \E id \in 1..MaxCalls : PairGetStudentById(id)
    \/ PairGetStudents
    \/ \E id \in 1..MaxCalls, o \in Objects : PairUpdateStudentById(id, o)

PairSpec == PairInit /\ [][PairNext]_vars

----------------------------------------------------------------------------
(* Properties *)

\* the identifiers a caller may ask for
AnyId == (0 - 1)..(MaxSeq + 1)

\* C1: from every reachable table, CreateStudent of a name, a well-formed
\* email that is not stored and an age in 1..100 (the engine executing the
\* statement) returns no error and a positive id, and GetStudentById of that
\* id then returns the Student with that id and exactly these three values;
\* the id a 201 response carries is positive and is the id of a stored row.
C1_CreateThenGet ==
    /\ \A o \in Objects :
          (IsEmail(o.email) /\ o.age \in MinAge..MaxAge /\ ~EmailTaken(students, o.email)) =>
             LET r == CreateStudent(driver, students, seq, o.name, o.email, o.age, TRUE)
                 g == GetStudentById(r.db, r.id, TRUE)
             IN /\ r.err = "none"
                /\ r.id > 0
                /\ g.err = "none"
                /\ g.student = Student(r.id, o.name, o.email, o.age)
    /\ (last.op = "New" /\ last.status = StatusCreated) =>
          /\ last.id > 0
          /\ last.id \in Ids(students)
          /\ last.id \in issued

\* a second student has just been created, with the values sent
C1_Witness ==
    /\ last.op = "New" /\ last.status = StatusCreated /\ last.id = 2
    /\ 1 \in Ids(students)
    /\ RowOf(students, 2) = Student(2, "Bob", "b@x.com", MaxAge)

\* C2: when a student with email e is stored, CreateStudent with email e and
\* any name and age (the engine executing the statement) fails with
\* ConstraintViolation, leaves the rows as they are, and GetStudentById still
\* returns every stored student unchanged; POST answers it with an error.
C2_DuplicateEmailRejected ==
    /\ \A k \in 1..Len(students) : \A o \in Objects :
          LET r == CreateStudent(driver, students, seq, o.name, students[k].email, o.age, TRUE)
          IN /\ r.err = "ConstraintViolation"
             /\ r.id = 0
             /\ r.db = students
             /\ GetStudentById(r.db, students[k].id, TRUE)
                   = [student |-> students[k], err |-> "none"]
    /\ \A b \in Bodies :
          LET d == Decode(b) IN
          (d.err = "none" /\ Validate(d.student) /\ EmailTaken(students, d.student.email)) =>
             LET h == NewHandler(driver, students, seq, "POST", b, TRUE)
             IN /\ h.db = students
                /\ h.out.err = "ConstraintViolation"
                /\ h.out.status = StatusBadRequest

\* a POST has just been refused for its email while the first student stays
C2_Witness ==
    /\ last.op = "New" /\ last.err = "ConstraintViolation"
    /\ Len(students) = 1
    /\ students[1] = Student(1, "Ada", "a@x.com", MinAge)

\* C3: in every reachable state, whatever the interleaving of the requests'
\* statements, no two stored students have the same email; a create or an
\* update-by-id that would give a student the email of another stored
\* student fails and leaves every row as it is.
C3_EmailUnique ==
    /\ \A j, k \in 1..Len(students) : j # k => students[j].email # students[k].email
    /\ \A o \in Objects :
          EmailTaken(students, o.email) =>
             LET r == CreateStudent(driver, students, seq, o.name, o.email, o.age, TRUE)
             IN r.err # "none" /\ r.db = students
    /\ \A i \in Ids(students) : \A o \in Objects :
          (\E k \in 1..Len(students) : students[k].id # i /\ students[k].email = o.email) =>
             LET r == UpdateExec(students, i, o.name, o.email, o.age, TRUE)
             IN r.err # "none" /\ r.db = students

\* an update has just been refused for its email, with two students stored
\* and another update between its two statements
C3_Witness ==
    /\ last.op = "UpdateById" /\ last.err = "ConstraintViolation"
    /\ Len(students) = 2
    /\ pending # {}

\* C4: UpdateStudentById on an id that matches no stored row (the engine
\* executing the statement) fails with NotFound before any re-read and
\* leaves the table exactly as it was; PUT answers it with an error.
C4_UpdateMissingId ==
    /\ \A id \in AnyId \ Ids(students) : \A o \in Objects :
          LET r == UpdateExec(students, id, o.name, o.email, o.age, TRUE)
          IN r.err = "NotFound" /\ r.db = students
    /\ \A b \in Bodies, i \in PathIds :
          (Decode(b).err = "none" /\ ~ParseInt(i).err
              /\ ParseInt(i).val \notin Ids(students)) =>
             LET h == UpdateByIdHandler(students, "PUT", b, i, TRUE)
             IN /\ h.db = students
                /\ h.reread = 0
                /\ h.out.err = "NotFound"
                /\ h.out.status = StatusInternalServerError

\* a PUT on a missing id has just been refused while a student is stored
C4_Witness ==
    /\ last.op = "UpdateById" /\ last.err = "NotFound"
    /\ Len(students) > 0

\* C5: UpdateStudentById on a stored id, with an email no other student
\* holds (the engine executing the statement), sets that row's name, email
\* and age to exactly the values given and changes no other row;
\* GetStudentById of the id then returns the new values, not the old ones.
C5_UpdateReplacesFields ==
    \A i \in Ids(students) : \A o \in Objects :
       (~\E k \in 1..Len(students) : students[k].id # i /\ students[k].email = o.email) =>
          LET r == UpdateExec(students, i, o.name, o.email, o.age, TRUE)
              g == GetStudentById(r.db, i, TRUE)
              new == Student(i, o.name, o.email, o.age)
          IN /\ r.err = "none"
             /\ Ids(r.db) = Ids(students)
             /\ Len(r.db) = Len(students)
             /\ RowOf(r.db, i) = new
             /\ \A j \in Ids(students) \ {i} : RowOf(r.db, j) = RowOf(students, j)
             /\ g = [student |-> new, err |-> "none"]
             /\ (new # RowOf(students, i) => g.student # RowOf(students, i))

\* the UPDATE of student 1 has just run, next to a second student, and left
\* values only an update can store
C5_Witness ==
    /\ last.op = "UpdateById" /\ last.called = "UpdateStudentById"
    /\ last.err = "none" /\ last.id = 1
    /\ 2 \in Ids(students)
    /\ RowOf(students, 1) = Student(1, "Ada", "b@x.com", MaxAge + 1)


\* C6: the UpdateById handler invokes the storage update only when the
\* method is PUT, the body decodes, the decoded body passes field validation
\* and the path id parses; a PUT whose body fails field validation gets an
\* error response and modifies no row.  (Stated of every PUT step whose
\* statement the engine executes.)
C6_UpdateValidatesBody ==
    [][\A b \in Bodies, i \in PathIds :
          UpdateById("PUT", b, i, TRUE) =>
             LET d == Decode(b) IN
             /\ last'.called # "none" =>
                   (d.err = "none" /\ Validate(d.student) /\ ~ParseInt(i).err)
             /\ (d.err = "none" /\ ~Validate(d.student)) =>
                   (last'.status >= StatusBadRequest /\ students' = students)]_vars

\* C7: a POST whose body decodes and whose age is outside 1..100 is answered
\* with 400 and a validation envelope naming Age, whatever the state of the
\* engine; CreateStudent is not invoked and neither the table nor the id
\* generator changes.
C7_PostAgeOutOfRange ==
    \A b \in Bodies, up \in BOOLEAN :
       LET d == Decode(b) IN
       (d.err = "none" /\ (d.student.age < MinAge \/ d.student.age > MaxAge)) =>
          LET h == NewHandler(driver, students, seq, "POST", b, up)
          IN /\ h.out.status = StatusBadRequest
             /\ h.out.kind = "ValidationError"
             /\ "Age" \in h.out.fields
             /\ h.out.called = "none"
             /\ h.db = students
             /\ h.seq = seq

\* a POST has just been refused for its age alone, with a student stored
C7_Witness ==
    /\ last.op = "New" /\ last.status = StatusBadRequest
    /\ last.kind = "ValidationError" /\ last.fields = {"Age"}
    /\ last.called = "none"
    /\ Len(students) > 0

\* C8: a POST whose body is empty or is not well-formed JSON is answered with
\* 400 and an error envelope; CreateStudent is not invoked and the table is
\* unchanged.  (Stated of every POST step.)
C8_PostMalformedJson ==
    [][\A b \in Bodies :
          (New("POST", b, TRUE) /\ ~WellFormedJson(b)) =>
             /\ last'.status = StatusBadRequest
             /\ last'.kind = "GeneralError"
             /\ last'.called = "none"
             /\ students' = students]_vars

\* C9: in every reachable state GetStudentById on an id no CreateStudent
\* call has returned fails: with NotFound when the engine executes the
\* query, and never with a Student; GET answers it with an error.
C9_GetUnissuedId ==
    /\ \A id \in AnyId \ issued :
          /\ GetStudentById(students, id, TRUE) = [student |-> ZeroStudent, err |-> "NotFound"]
          /\ \A up \in BOOLEAN :
                LET g == GetStudentById(students, id, up)
                IN g.err # "none" /\ g.student = ZeroStudent
    /\ \A i \in PathIds :
          (~ParseInt(i).err /\ ParseInt(i).val \notin issued) =>
             LET h == GetByIdHandler(students, i, TRUE)
             IN /\ h.out.err = "NotFound"
                /\ h.out.status = StatusInternalServerError
                /\ h.student = ZeroStudent

\* a GET of an id never issued has just failed while other ids are issued
C9_Witness ==
    /\ last.op = "GetById" /\ last.err = "NotFound"
    /\ last.status = StatusInternalServerError
    /\ issued # {}
    /\ Len(students) > 0

\* C10: GetStudents (the engine executing the query) returns every stored
\* student exactly once, in strictly ascending id order, whatever the order
\* in which the rows were created and updated; GET /api/students answers
\* 200 with that list.
C10_ListAscending ==
    LET l == GetStudents(students, TRUE).list
        h == GetListHandler(students, TRUE)
    IN /\ Len(l) = Len(students)
       /\ \A k \in 1..Len(students) : \E m \in 1..Len(l) : l[m] = students[k]
       /\ \A k, m \in 1..Len(l) : k < m => l[k].id < l[m].id
       /\ h.list = l
       /\ h.out.status = StatusOK
       /\ h.out.count = Len(students)

\* a list of two students has just been returned from a table whose storage
\* order (after an update) is not the id order
C10_Witness ==
    /\ last.op = "GetList" /\ last.status = StatusOK /\ last.count = 2
    /\ Len(students) = 2
    /\ students[1].id > students[2].id

\* C11: with no row in the students table GetStudents (the engine executing
\* the query) returns a sequence of length 0 and no error, and GET
\* /api/students answers 200 with an empty JSON array, not an error and not
\* an absent value.  (Stated of every GET /api/students step.)
C11_EmptyListIsArray ==
    [][(GetList(TRUE) /\ students = <<>>) =>
          /\ GetStudents(students, TRUE).list = <<>>
          /\ GetStudents(students, TRUE).err = "none"
          /\ last'.err = "none"
          /\ last'.status = StatusOK
          /\ last'.count = 0
          /\ last'.body = "array"]_vars

\* C12: whenever UpdateStudentById returns no error, the Student it returns
\* is the row stored under the requested id: the same id, and the stored
\* name, email and age, whatever the outcome of the re-read query.
\* (Stated of every step in which UpdateStudentById returns.)
C12_UpdateReturnsStoredRow ==
    [][\A i \in 1..MaxSeq, up \in BOOLEAN :
          UpdateByIdReturn(i, up) =>
             LET r == UpdateReread(students, i, up) IN
             r.err = "none" =>
                /\ r.student.id = i
                /\ r.student = RowOf(students, i)
                /\ last'.id = i]_vars

\* C13 (as claimed): for every configured driver name other than "sqlite"
\* and "postgres", the empty string included, NewStorage returns an
\* UnsupportedDriver error carrying the name and the supported names, and
\* constructs no adapter.  (Stated of every start of the process whose
\* configuration loads.)
C13_UnknownDriverReturnsError ==
    [][\A cfg \in Configs, env \in Envs :
          (MainStart(TRUE, cfg, env) /\ cfg.DBType \notin Drivers) =>
             LET r == NewStorage(cfg, env) IN
             /\ ~r.fatal
             /\ r.err = "UnsupportedDriver"
             /\ r.value = cfg.DBType
             /\ r.supported = {"sqlite", "postgres"}
             /\ r.storage = "nil"
             /\ r.tried = {}
             /\ proc'.returned
             /\ proc'.err = "UnsupportedDriver"]_vars

\* C13 (amended): for every non-empty driver name other than "sqlite" and
\* "postgres" NewStorage returns an UnsupportedDriver error carrying the
\* name and the supported names, invokes no constructor and returns no
\* handle; for the empty name it does not return but ends the process,
\* also without invoking a constructor.  In both cases the process has
\* exited with no handle, and no other backend was tried.
C13_UnknownNonEmptyDriver ==
    /\ \A cfg \in Configs, env \in Envs :
          LET r == NewStorage(cfg, env) IN
          /\ (cfg.DBType \notin Drivers /\ cfg.DBType # "") =>
                /\ ~r.fatal
                /\ r.err = "UnsupportedDriver"
                /\ r.value = cfg.DBType
                /\ r.supported = {"sqlite", "postgres"}
                /\ r.storage = "nil"
                /\ r.tried = {}
          /\ cfg.DBType = "" =>
                /\ r.fatal
                /\ r.storage = "nil"
                /\ r.tried = {}
    /\ (proc.pc # "start" /\ proc.err # "ConfigError" /\ proc.dbType \notin Drivers) =>
          /\ proc.pc = "exited"
          /\ proc.storage = "nil"
          /\ proc.tried = {}
          /\ driver = "none"
          /\ proc.dbType # "" => (proc.returned /\ proc.err = "UnsupportedDriver")
          /\ proc.dbType = "" => (~proc.returned /\ proc.err = "NoDriver")

\* the process was configured with a driver that is not registered and has
\* exited on the error NewStorage returned
C13_Witness ==
    /\ proc.pc = "exited"
    /\ proc.dbType = "mysql"
    /\ proc.err = "UnsupportedDriver"
    /\ proc.returned

\* C14: in every reachable state the stored students have pairwise distinct
\* ids, and the ids stored are exactly the ids the creates have returned,
\* none above the id generator; a create that succeeds returns an id above
\* the generator, hence one no create has returned, and leaves every other
\* row with its id and values; an update changes neither the set of ids
\* nor the number of rows.
C14_IdAssignedOnce ==
    /\ \A j, k \in 1..Len(students) : j # k => students[j].id # students[k].id
    /\ Ids(students) = issued
    /\ \A i \in issued : i \in 1..seq
    /\ \A o \in Objects, up \in BOOLEAN :
          LET r == CreateStudent(driver, students, seq, o.name, o.email, o.age, up) IN
          /\ r.seq >= seq
          /\ r.err = "none" =>
                /\ r.id > seq
                /\ r.id \notin issued
                /\ Ids(r.db) = Ids(students) \cup {r.id}
                /\ \A i \in Ids(students) : RowOf(r.db, i) = RowOf(students, i)
          /\ r.err # "none" => r.db = students
    /\ \A i \in AnyId, o \in Objects, up \in BOOLEAN :
          LET r == UpdateExec(students, i, o.name, o.email, o.age, up) IN
          /\ Ids(r.db) = Ids(students)
          /\ Len(r.db) = Len(students)

\* two students were created, the first was then updated (it is stored
\* after the second) and both still carry the ids issued to them
C14_Witness ==
    /\ issued = {1, 2}
    /\ Len(students) = 2
    /\ students[1].id = 2 /\ students[2].id = 1
    /\ last.op = "UpdateById" /\ last.called = "UpdateStudentById" /\ last.err = "none"

\* C15: in every state an interleaving of the requests' statements
\* reaches, also with an update between its UPDATE and its re-read: a create
\* or update statement leaves every row either as it was or, for the one id
\* it writes, with exactly the name, email and age of that one request; a
\* get returns one stored row whole, and so does a re-read that returns a
\* student: no row and no read mixes the fields of two writes.
C15_NoMixedFields ==
    /\ \A b \in Bodies, up \in BOOLEAN :
          LET s == Decode(b).student
              h == NewHandler(driver, students, seq, "POST", b, up)
          IN \A j \in Ids(h.db) :
                \/ j \in Ids(students) /\ RowOf(h.db, j) = RowOf(students, j)
                \/ /\ j = h.out.id
                   /\ RowOf(h.db, j) = Student(j, s.name, s.email, s.age)
    /\ \A b \in Bodies, i \in PathIds, up \in BOOLEAN :
          LET s == Decode(b).student
              h == UpdateByIdHandler(students, "PUT", b, i, up)
          IN \A j \in Ids(h.db) :
                \/ j \in Ids(students) /\ RowOf(h.db, j) = RowOf(students, j)
                \/ /\ j = ParseInt(i).val
                   /\ RowOf(h.db, j) = Student(j, s.name, s.email, s.age)
    /\ \A i \in PathIds, up \in BOOLEAN :
          LET g == GetByIdHandler(students, i, up) IN
          g.out.status = StatusOK =>
             \E k \in 1..Len(students) : g.student = students[k]
    /\ \A id \in pending, up \in BOOLEAN :
          LET r == UpdateReread(students, id, up).student IN
          r = ZeroStudent \/ \E k \in 1..Len(students) : r = students[k]

\* a get of student 1 has just been answered while an update of student 1
\* is between its UPDATE statement and its re-read
C15_Witness ==
    /\ last.op = "GetById" /\ last.status = StatusOK /\ last.id = 1
    /\ 1 \in pending
    /\ Len(students) = 2

C18_ServesOnlyWithStorage ==
    /\ (proc.pc \in {"routes", "serving"} \/ proc.routes \/ last.op # "start") =>
          /\ proc.storage \in Drivers
          /\ proc.storage = proc.dbType
          /\ driver = proc.storage
          /\ proc.returned
          /\ proc.tried = {proc.storage}
    /\ proc.err \notin {"none", "ListenFailed"} =>
          /\ proc.pc = "exited"
          /\ ~proc.routes
          /\ proc.storage = "nil"
          /\ driver = "none"
          /\ last.op = "start"
          /\ students = <<>>
    /\ \A loaded \in BOOLEAN, cfg \in Configs, env \in Envs :
          LET r == NewStorage(cfg, env)
              b == MainBoot(loaded, cfg, env)
          IN /\ (~loaded \/ r.fatal \/ r.err # "none" \/ r.storage = "nil") =>
                   (b.pc = "exited" /\ b.storage = "nil" /\ ~b.routes /\ b.err # "none")
             /\ b.pc # "exited" => (b.storage = cfg.DBType /\ b.storage \in Drivers)

\* the process was configured for PostgreSQL, the liveness probe failed and
\* the process has exited before registering a route
C18_Witness ==
    /\ proc.pc = "exited"
    /\ proc.dbType = "postgres"
    /\ proc.err = "PingFailed"
    /\ proc.tried = {"postgres"}
    /\ ~proc.routes

\* C17: given the same storage calls from empty tables, the SQLite adapter
\* and the PostgreSQL adapter both support every call and answer each with
\* the same error kind and the same student data.
C17_AdaptersAgree ==
    /\ twin.lite.err # "Unsupported"
    /\ twin.pg.err # "Unsupported"
    /\ twin.lite = twin.pg

====
